---- MODULE Spec2Model ----
(***************************************************************************)
(* Stale-resource scans of the three Lambda handlers                       *)
(*   functions/ec2/ec2.py, functions/lb/lb.py, functions/nat_gw/nat_gw.py. *)
(* One behaviour is one invocation of one main_handler.  Regions and pages  *)
(* are flattened into one enumeration order.  An iteration of the loop is  *)
(* two steps: the owner is resolved (tag, else CloudTrail) and given a key *)
(* in email_candidates, then the resource is classified and recorded in    *)
(* info_candidates and, for a finding, in email_candidates.                *)
(* What the AWS services answer (tags, CloudTrail events, CloudWatch       *)
(* series) is drawn when the handler asks for it.  After the loop come the *)
(* summary, the owner loop (one put_item per finding, then the e-mail)     *)
(* and, in ec2.py, the scheduling of the deletion lambda and its outcome;  *)
(* each call to a service may succeed or fail.                             *)
(***************************************************************************)
EXTENDS Integers, Sequences, FiniteSets, TLC

VARIABLES
    kind,              \* which handler runs: event['major']
    pc,                \* where main_handler is
    raised,            \* the exception that left main_handler, if any
    resources,         \* the resources taken from the lister so far, with their owner
    cur,               \* the resource of the current iteration and what was asked about it
    events,            \* response['Events'] inside get_creator_from_cloudtrail_ec2
    email_candidates,  \* owner -> findings
    info_candidates,   \* the summary rows
    at,                \* where the loop over email_candidates.items() is
    calls,             \* the calls made after the enumeration, in order, with their outcome
    store,             \* the items of the DynamoDB table
    scheduled,         \* what schedule_deletion_lambda returned
    bridge,            \* what schedule_deletion_lambda left in EventBridge and Lambda
    peer               \* another scan that writes to the same table at the same time

\* the state of the steps that follow the enumeration
report_vars == <<at, calls, store, scheduled, bridge, peer>>

vars == <<kind, pc, raised, resources, cur, events, email_candidates, info_candidates,
          at, calls, store, scheduled, bridge, peer>>

(* ---------------------------- bounds ----------------------------------- *)
\* resources the lister returns in one scan, at most
MaxResources == 2
\* events in one CloudTrail lookup_events answer, at most
MaxEvents == 2

(* ------------------------ program constants ---------------------------- *)
TIME_FRAME == 7

\* Python's None (a dictionary key and a creator value)
PyNone == "<None>"

\* no other scan is running
NoPeer == [kind |-> "none", todo |-> <<>>]

Kinds == {"EC2", "LB", "NAT"}

(* ----------------------------- inputs ---------------------------------- *)
Tag(k, v) == [Key |-> k, Value |-> v]

\* tag lists a describe_tags call answers with
TagLists ==
    { <<>>,
      <<Tag("creator", "alice")>>,
      <<Tag("creator", "bob")>>,
      <<Tag("stale", "false")>>,
      <<Tag("creator", "")>>,
      <<Tag("creator", "alice"), Tag("team", "creator")>> }

\* ages in whole days around the threshold
Ages == {TIME_FRAME - 1, TIME_FRAME}

\* the creation event each handler searches CloudTrail for
CreationEvent(k) ==
    CASE k = "EC2" -> "RunInstances"
      [] k = "LB"  -> "CreateLoadBalancer"
      [] k = "NAT" -> "CreateNatGateway"

\* an event name that is not the handler's creation event
OtherEvent(k) == IF k = "EC2" THEN "CreateNatGateway" ELSE "RunInstances"

Event(n, t, u) == [EventName |-> n, type |-> t, Username |-> u]

EventPool(k) ==
    { Event(CreationEvent(k), "AssumedRole", "alice"),
      Event(CreationEvent(k), "AssumedRole", "bob"),
      Event(CreationEvent(k), "IAMUser", "bob"),
      Event(OtherEvent(k), "AssumedRole", "alice") }

EventLists(k) == UNION { [1..n -> EventPool(k)] : n \in 0..MaxEvents }

\* CloudWatch answers: a sequence of result series, each a sequence of values
Ec2Responses ==
    { <<ni, no, cpu>> : ni \in {<<>>, <<0>>, <<5242880>>, <<5242880, 0>>},
                        no \in {<<>>, <<5242879>>, <<5242880>>},
                        cpu \in {<<>>, <<9>>, <<10>>, <<11>>, <<10, 9>>} }
        \cup { <<>>, << <<0>>, <<0>> >> }

LbResponses ==
    { <<a, rc>> : a \in {<<>>, <<1001>>},
                  rc \in {<<>>, <<1000>>, <<1001>>, <<1001, 1000>>} }
        \cup { <<>>, << <<1001>> >> }

NatResponses ==
    { <<ca>> : ca \in {<<>>, <<7>>, <<8>>, <<8, 7>>} } \cup { <<>> }

\* the answers drawn for a resource of kind k
Responses(k) ==
    CASE k = "EC2" -> Ec2Responses [] k = "LB" -> LbResponses [] k = "NAT" -> NatResponses

(* ------------------------- Python helpers ------------------------------ *)
\* truth value of a creator (None and the empty string are falsy)
Truthy(c) == c # PyNone /\ c # ""

\* email_candidates is a dict: a sequence of entries in insertion order
HasKey(d, k) == \E i \in 1..Len(d) : d[i].creator = k

Keys(d) == { d[i].creator : i \in 1..Len(d) }

Get(d, k) == d[CHOOSE i \in 1..Len(d) : d[i].creator = k].idle_resources

\* a setdefault that skips a falsy key (None, '')
setdefault_truthy(d, k) ==
    IF HasKey(d, k) \/ ~Truthy(k) THEN d
    ELSE Append(d, [creator |-> k, idle_resources |-> <<>>])

\* email_candidates.setdefault(creator, [])
setdefault(d, k) ==
    IF HasKey(d, k) THEN d ELSE Append(d, [creator |-> k, idle_resources |-> <<>>])

\* an insert at the front in place of the append
prepend_finding(d, k, f) ==
    [i \in 1..Len(d) |->
        IF d[i].creator = k
        THEN [d[i] EXCEPT !.idle_resources = <<f>> \o @]
        ELSE d[i]]

\* email_candidates[creator].append(finding)
append_finding(d, k, f) ==
    [i \in 1..Len(d) |->
        IF d[i].creator = k
        THEN [d[i] EXCEPT !.idle_resources = Append(@, f)]
        ELSE d[i]]

(* ----------------------- ownership resolution -------------------------- *)
\* for tag in tags: if tag['Key'] == 'creator': creator = tag['Value']; break
RECURSIVE creator_tag(_)
creator_tag(tags) ==
    IF tags = <<>> THEN PyNone
    ELSE IF Head(tags).Key = "creator" THEN Head(tags).Value
    ELSE creator_tag(Tail(tags))

\* for x in tag_dicts: if any('creator' == v for v in x.values()): creator = x['Value']
RECURSIVE creator_tag_lb(_, _)
creator_tag_lb(tag_dicts, so_far) ==
    IF tag_dicts = <<>> THEN so_far
    ELSE creator_tag_lb(Tail(tag_dicts),
            IF Head(tag_dicts).Key = "creator" \/ Head(tag_dicts).Value = "creator"
            THEN Head(tag_dicts).Value ELSE so_far)

\* a loop that gives up at the first event that does not qualify
first_event_only(evs, creation_event) ==
    IF evs = <<>> THEN PyNone
    ELSE IF Head(evs).EventName = creation_event /\ Head(evs).type = "AssumedRole"
    THEN Head(evs).Username
    ELSE PyNone

\* the loop over response['Events'] of get_creator_from_cloudtrail_ec2
RECURSIVE get_creator_from_cloudtrail_ec2(_, _)
get_creator_from_cloudtrail_ec2(evs, creation_event) ==
    IF evs = <<>> THEN PyNone
    ELSE IF Head(evs).EventName = creation_event /\ Head(evs).type = "AssumedRole"
    THEN Head(evs).Username
    ELSE get_creator_from_cloudtrail_ec2(Tail(evs), creation_event)

(* --------------------------- classification --------------------------- *)
\* ec2.py: any(tag['Key'] == 'stale' and tag['Value'] == 'false' for tag in ec2_tags).
\* ec2_tags is the describe_tags answer itself, a dict, and iterating a dict yields
\* its keys: the first key is a string, and subscripting it with 'Key' raises
\* TypeError.  The answer always has the key 'Tags' (it was read just before).
stale_tag_present(ec2_tags) ==
    IF DOMAIN ec2_tags = {} THEN "False" ELSE "TypeError"

Verdict(s, f, d) == [status |-> s, finding |-> f, detail |-> d]

FirstOr0(values) == IF values # <<>> THEN values[1] ELSE 0

\* the CPU comparison with <= in place of <
threshold_ec2_cpu_le(network_in_data, network_out_data, cpu_utilization_data) ==
    IF network_in_data # <<>> \/ network_out_data # <<>> \/ cpu_utilization_data # <<>>
    THEN IF (FirstOr0(network_in_data) < 5 * 1024 * 1024
                /\ FirstOr0(network_out_data) < 5 * 1024 * 1024)
            \/ FirstOr0(cpu_utilization_data) <= 10
         THEN Verdict("stale", TRUE, "Values")
         ELSE Verdict("Not stale", FALSE, "Values")
    ELSE Verdict("stale", TRUE, "No Values Returned")

\* ec2.py lines 290-314, on the three series read at lines 285-287
threshold_ec2(network_in_data, network_out_data, cpu_utilization_data) ==
    IF network_in_data # <<>> \/ network_out_data # <<>> \/ cpu_utilization_data # <<>>
    THEN IF (FirstOr0(network_in_data) < 5 * 1024 * 1024
                /\ FirstOr0(network_out_data) < 5 * 1024 * 1024)
            \/ FirstOr0(cpu_utilization_data) < 10
         THEN Verdict("stale", TRUE, "Values")
         ELSE Verdict("Not stale", FALSE, "Values")
    ELSE Verdict("stale", TRUE, "No Values Returned")

\* the last sample read in place of the first
threshold_lb_last(request_count_list) ==
    IF request_count_list # <<>>
    THEN IF request_count_list[Len(request_count_list)] > 1000
         THEN Verdict("Not stale", FALSE, "Values")
         ELSE Verdict("stale", TRUE, "Values")
    ELSE Verdict("stale", TRUE, "No Values Returned")

\* lb.py lines 203-221, on response['MetricDataResults'][1]['Values']
threshold_lb(request_count_list) ==
    IF request_count_list # <<>>
    THEN IF request_count_list[1] > 1000
         THEN Verdict("Not stale", FALSE, "Values")
         ELSE Verdict("stale", TRUE, "Values")
    ELSE Verdict("stale", TRUE, "No Values Returned")

\* an empty series taken for activity
threshold_nat_nodata_active(values) ==
    IF values # <<>>
    THEN IF values[1] > 7
         THEN Verdict("Not stale", FALSE, "Values")
         ELSE Verdict("stale", TRUE, "Values")
    ELSE Verdict("Not stale", FALSE, "No Values Returned")

\* nat_gw.py lines 188-211, on response['MetricDataResults'][0]['Values']
threshold_nat(values) ==
    IF values # <<>>
    THEN IF values[1] > 7
         THEN Verdict("Not stale", FALSE, "Values")
         ELSE Verdict("stale", TRUE, "Values")
    ELSE Verdict("stale", TRUE, "No Values Returned")

(* ------------------------------ state ---------------------------------- *)
\* the resource of an iteration; lookup and queried tell which services were asked
Input(id, tags, age, listeners) ==
    [id |-> id, tags |-> tags, age |-> age, listeners |-> listeners,
     lookup |-> FALSE, lookup_failed |-> FALSE, queried |-> FALSE, response |-> <<>>]

Looked(c, failed) == [c EXCEPT !.lookup = TRUE, !.lookup_failed = failed]

Queried(c, response) == [c EXCEPT !.queried = TRUE, !.response = response]

Enumerated(c, owner, resolved) ==
    Append(resources, [id |-> c.id, owner |-> owner, resolved |-> resolved])

Row(id, creator, detail, status) ==
    [id |-> id, creator |-> creator, detail |-> detail, status |-> status]

\* every load-balancer finding marked 'idle'
Finding_idle(k, id, reason) ==
    IF k = "LB" THEN [id |-> id, reason |-> "idle", Type |-> k]
    ELSE [id |-> id, Type |-> k]

\* the finding tuples appended to email_candidates[creator]
Finding(k, id, reason) ==
    IF k = "LB" THEN [id |-> id, reason |-> reason, Type |-> k]
    ELSE [id |-> id, Type |-> k]

\* the local variable creator: the owner resolved for the current resource
cur_creator == resources[Len(resources)].owner

Init ==
    /\ kind \in Kinds
    /\ pc = "enumerating"
    /\ raised = "none"
    /\ resources = <<>>
    /\ cur = Input(0, <<>>, 0, FALSE)
    /\ events = <<>>
    /\ email_candidates = <<>>
    /\ info_candidates = <<>>
    /\ at = [owner |-> 1, finding |-> 1]
    /\ calls = <<>>
    /\ store = {}
    /\ scheduled = "pending"
    /\ bridge = [rule |-> FALSE, targets |-> FALSE, permission |-> FALSE]
    /\ peer = NoPeer

(* ------------------------- owner resolution ---------------------------- *)
\* ec2.py 255-261, lb.py 185-192, nat_gw.py 175-180: the tag's value if it is
\* truthy, else the CloudTrail lookup, which may raise ClientError; then the key
resolve(c, tagged) ==
    IF Truthy(tagged)
    THEN /\ cur' = c
         /\ resources' = Enumerated(c, tagged, TRUE)
         /\ email_candidates' = setdefault(email_candidates, tagged)
         /\ pc' = "resolved"
         /\ UNCHANGED <<kind, raised, events, info_candidates>>
         /\ UNCHANGED report_vars
    ELSE \E failed \in BOOLEAN :
            IF failed
            THEN /\ cur' = Looked(c, TRUE)
                 /\ resources' = Enumerated(c, PyNone, FALSE)
                 /\ pc' = "aborted"
                 /\ raised' = "ClientError"
                 /\ UNCHANGED <<kind, events, email_candidates, info_candidates>>
                 /\ UNCHANGED report_vars
            ELSE \E answer \in EventLists(kind) :
                    LET found == get_creator_from_cloudtrail_ec2(answer, CreationEvent(kind))
                    IN  /\ cur' = Looked(c, FALSE)
                        /\ events' = answer
                        /\ resources' = Enumerated(c, found, TRUE)
                        /\ email_candidates' = setdefault(email_candidates, found)
                        /\ pc' = "resolved"
                        /\ UNCHANGED <<kind, raised, info_candidates>>
                        /\ UNCHANGED report_vars

\* ec2.py lines 236-261
ec2_resolve ==
    /\ pc = "enumerating"
    /\ kind = "EC2"
    /\ Len(resources) < MaxResources
    /\ \E tags \in TagLists, age \in Ages :
        resolve(Input(Len(resources) + 1, tags, age, FALSE), creator_tag(tags))

\* nat_gw.py lines 155-180
nat_gw_resolve ==
    /\ pc = "enumerating"
    /\ kind = "NAT"
    /\ Len(resources) < MaxResources
    /\ \E tags \in TagLists, age \in Ages :
        resolve(Input(Len(resources) + 1, tags, age, FALSE), creator_tag(tags))

\* lb.py lines 160-192
lb_resolve ==
    /\ pc = "enumerating"
    /\ kind = "LB"
    /\ Len(resources) < MaxResources
    /\ \E tags \in TagLists, age \in Ages, listeners \in BOOLEAN :
        resolve(Input(Len(resources) + 1, tags, age, listeners), creator_tag_lb(tags, PyNone))

(* --------------------------- classification ---------------------------- *)
\* the iteration ends normally
Continue(c, ec, rows) ==
    /\ cur' = c
    /\ email_candidates' = ec
    /\ info_candidates' = rows
    /\ pc' = IF pc = "evaluating" THEN "evaluated" ELSE "enumerating"
    /\ events' = <<>>
    /\ UNCHANGED <<kind, raised, resources>>
    /\ UNCHANGED report_vars

\* an exception nothing catches leaves main_handler
Raise(exc, c) ==
    /\ cur' = c
    /\ pc' = "aborted"
    /\ raised' = exc
    /\ events' = <<>>
    /\ UNCHANGED <<kind, resources, email_candidates, info_candidates>>
    /\ UNCHANGED report_vars

\* append the summary row and, for a finding, the owner's tuple
Classified(c, v) ==
    Continue(c,
             IF v.finding
             THEN append_finding(email_candidates, cur_creator, Finding(kind, c.id, "idle"))
             ELSE email_candidates,
             Append(info_candidates, Row(c.id, cur_creator, v.detail, v.status)))

TooYoung(c) ==
    Continue(c, email_candidates,
             Append(info_candidates,
                    Row(c.id, cur_creator, "Resource Age less than TIME_FRAME days", "None")))

\* ec2.py lines 279-320: the age gate, the metrics query and the threshold block
ec2_evaluate ==
    IF cur.age >= TIME_FRAME
    THEN \E response \in Ec2Responses :
            IF Len(response) < 3
            THEN Raise("IndexError", Queried(cur, response))
            ELSE Classified(Queried(cur, response),
                            threshold_ec2(response[1], response[2], response[3]))
    ELSE TooYoung(cur)

\* ec2.py lines 263-320: the exemption gate, then the evaluation
ec2_classify ==
    /\ pc = "resolved"
    /\ kind = "EC2"
    /\ LET stale_tag == stale_tag_present([Tags |-> cur.tags, ResponseMetadata |-> <<>>])
       IN  IF stale_tag = "TypeError"
           THEN Raise("TypeError", cur)
           ELSE IF stale_tag = "True"
           THEN Continue(cur, email_candidates,
                         Append(info_candidates,
                                Row(cur.id, cur_creator,
                                    "Resource tagged as not stale by owner", "None")))
           ELSE ec2_evaluate

\* nat_gw.py lines 182-215
nat_gw_classify ==
    /\ pc = "resolved"
    /\ kind = "NAT"
    /\ IF cur.age >= TIME_FRAME
       THEN \E response \in NatResponses :
                IF Len(response) < 1
                THEN Raise("IndexError", Queried(cur, response))
                ELSE Classified(Queried(cur, response), threshold_nat(response[1]))
       ELSE TooYoung(cur)

\* lb.py lines 197-228
lb_classify ==
    /\ pc = "resolved"
    /\ kind = "LB"
    /\ IF cur.age >= TIME_FRAME
       THEN IF cur.listeners
            THEN \E response \in LbResponses :
                    IF Len(response) < 2
                    THEN Raise("IndexError", Queried(cur, response))
                    ELSE Classified(Queried(cur, response), threshold_lb(response[2]))
            ELSE Continue(cur,
                          append_finding(email_candidates, cur_creator,
                                         Finding("LB", cur.id, "misconfigured")),
                          Append(info_candidates,
                                 Row(cur.id, cur_creator, "No Listeners Attached", "misconfigured")))
       ELSE TooYoung(cur)

\* the lister has no more resources: the loops end
end_enumeration ==
    /\ pc = "enumerating"
    /\ pc' = "enumerated"
    /\ UNCHANGED <<kind, raised, resources, cur, events, email_candidates, info_candidates>>
    /\ UNCHANGED report_vars

(* ------------------------ after the enumeration ------------------------ *)
\* one call to an AWS service: what was called, for whom or with which message,
\* for which resource, with which body, and whether it succeeded
Call(op, arg, id, body, ok) ==
    [op |-> op, arg |-> arg, id |-> id, body |-> body, ok |-> ok]

\* key_schema: ResourceID is the hash key and Type the range key
SameKey(x, y) == x.ResourceID = y.ResourceID /\ x.Type = y.Type

\* a write that leaves the written item alone in the table
put_item_alone(table, item) == {item}

\* a table whose key is ResourceID alone
put_item_by_id(table, item) == {x \in table : x.ResourceID # item.ResourceID} \cup {item}

\* dynamodb.put_item on the table: the item replaces the one with its key
put_item(table, item) == {x \in table : ~SameKey(x, item)} \cup {item}

\* the Item of ec2.py 352-359, lb.py 268-274, nat_gw.py 241-247
Item(owner, resource) ==
    [Creator |-> owner, ResourceID |-> resource.id, Type |-> resource.Type,
     Deletion_Status |-> "Marked"]

\* lb.py 256 without the test for None
owner_selected_unguarded(k, owner, idle_resources) ==
    IF k = "LB" THEN idle_resources # <<>> ELSE Truthy(owner)

\* ec2.py 346 and nat_gw.py 234: if creator;  lb.py 256-258: if creator is not
\* None, then if idle_resources
owner_selected(k, owner, idle_resources) ==
    IF k = "LB" THEN owner # PyNone /\ idle_resources # <<>> ELSE Truthy(owner)

\* a ClientError that is not caught leaves main_handler
uncaught(ok, here) == IF ok THEN here ELSE "aborted"

\* try: <call> except ClientError: logger.exception(...): where main_handler is
\* after the call, whether or not it succeeded
except_ClientError(ok, here) == here

\* ec2.py 325-340, lb.py 233-250, nat_gw.py 217-231: the summary of info_candidates
\* is published; a ClientError is logged
publish_summary ==
    /\ pc = "enumerated"
    /\ \E ok \in BOOLEAN :
        /\ calls' = Append(calls, Call("publish", "summary", 0, info_candidates, ok))
        /\ pc' = except_ClientError(ok, "owners")
    /\ at' = [owner |-> 1, finding |-> 1]
    /\ cur' = Input(0, <<>>, 0, FALSE)
    /\ UNCHANGED <<kind, raised, resources, events, email_candidates, info_candidates,
                   store, scheduled, bridge, peer>>

\* the loop over email_candidates.items() is at an owner it does nothing for
skip_owner ==
    /\ pc = "owners"
    /\ at.owner <= Len(email_candidates)
    /\ ~owner_selected(kind, email_candidates[at.owner].creator,
                       email_candidates[at.owner].idle_resources)
    /\ at' = [owner |-> at.owner + 1, finding |-> 1]
    /\ UNCHANGED <<kind, pc, raised, resources, cur, events, email_candidates,
                   info_candidates, calls, store, scheduled, bridge, peer>>

\* ec2.py 348-363, lb.py 259-278, nat_gw.py 236-253: one put_item of the inner loop;
\* a ClientError is logged and the loop goes on
store_finding ==
    /\ pc = "owners"
    /\ at.owner <= Len(email_candidates)
    /\ LET owner == email_candidates[at.owner].creator
           idle_resources == email_candidates[at.owner].idle_resources
       IN  /\ owner_selected(kind, owner, idle_resources)
           /\ at.finding <= Len(idle_resources)
           /\ \E ok \in BOOLEAN :
                /\ store' = IF ok THEN put_item(store, Item(owner, idle_resources[at.finding]))
                            ELSE store
                /\ calls' = Append(calls, Call("put_item", owner,
                                               idle_resources[at.finding].id, <<>>, ok))
                /\ pc' = except_ClientError(ok, pc)
    /\ at' = [at EXCEPT !.finding = @ + 1]
    /\ UNCHANGED <<kind, raised, resources, cur, events, email_candidates,
                   info_candidates, scheduled, bridge, peer>>

\* ec2.py 371-387, lb.py 285-301, nat_gw.py 260-276: the owner's e-mail, after the
\* inner loop; a ClientError is logged
notify_owner ==
    /\ pc = "owners"
    /\ at.owner <= Len(email_candidates)
    /\ LET owner == email_candidates[at.owner].creator
           idle_resources == email_candidates[at.owner].idle_resources
       IN  /\ owner_selected(kind, owner, idle_resources)
           /\ at.finding > Len(idle_resources)
           /\ \E ok \in BOOLEAN :
                /\ calls' = Append(calls,
                                   Call("send_email", owner, 0,
                                        [j \in 1..Len(idle_resources) |-> idle_resources[j].id],
                                        ok))
                /\ pc' = except_ClientError(ok, pc)
    /\ at' = [owner |-> at.owner + 1, finding |-> 1]
    /\ UNCHANGED <<kind, raised, resources, cur, events, email_candidates,
                   info_candidates, store, scheduled, bridge, peer>>

\* lb.py 301 and nat_gw.py 278: main_handler ends with the loop over the owners
lb_nat_gw_return ==
    /\ pc = "owners"
    /\ at.owner > Len(email_candidates)
    /\ kind # "EC2"
    /\ pc' = "done"
    /\ UNCHANGED <<kind, raised, resources, cur, events, email_candidates,
                   info_candidates, at, calls, store, scheduled, bridge, peer>>

\* an exception of a scheduling step that leaves main_handler
reraise(ok, next_pc) == IF ok THEN next_pc ELSE "aborted"

\* ec2.py 117-119: except Exception: return False; main_handler goes on at line 394
except_Exception(ok, next_pc) == IF ok THEN next_pc ELSE "publish_outcome"

\* a step whose failure undoes what the earlier steps left
schedule_step_rollback(op, ok, next_pc, effects) ==
    /\ calls' = Append(calls, Call(op, "", 0, <<>>, ok))
    /\ bridge' = IF ok THEN effects
                 ELSE [rule |-> FALSE, targets |-> FALSE, permission |-> FALSE]
    /\ pc' = except_Exception(ok, next_pc)
    /\ scheduled' = IF ~ok THEN "False"
                    ELSE IF next_pc = "publish_outcome" THEN "timestamp"
                    ELSE scheduled
    /\ UNCHANGED <<kind, raised, resources, cur, events, email_candidates,
                   info_candidates, at, store, peer>>

\* a step of schedule_deletion_lambda: any exception is caught at line 117 and
\* the function returns False
schedule_step(op, ok, next_pc, effects) ==
    /\ calls' = Append(calls, Call(op, "", 0, <<>>, ok))
    /\ bridge' = IF ok THEN effects ELSE bridge
    /\ pc' = except_Exception(ok, next_pc)
    /\ scheduled' = IF ~ok THEN "False"
                    ELSE IF next_pc = "publish_outcome" THEN "timestamp"
                    ELSE scheduled
    /\ UNCHANGED <<kind, raised, resources, cur, events, email_candidates,
                   info_candidates, at, store, peer>>

\* ec2.py 392 and 88-92: the loop over the owners is over, the scheduler is called
put_rule ==
    /\ pc = "owners"
    /\ at.owner > Len(email_candidates)
    /\ kind = "EC2"
    /\ \E ok \in BOOLEAN :
        schedule_step("put_rule", ok, "put_targets", [bridge EXCEPT !.rule = TRUE])

\* ec2.py 95-104
put_targets ==
    /\ pc = "put_targets"
    /\ \E ok \in BOOLEAN :
        schedule_step("put_targets", ok, "describe_rule", [bridge EXCEPT !.targets = TRUE])

\* ec2.py 107-108
describe_rule ==
    /\ pc = "describe_rule"
    /\ \E ok \in BOOLEAN :
        schedule_step("describe_rule", ok, "add_permission", bridge)

\* ec2.py 109-116
add_permission ==
    /\ pc = "add_permission"
    /\ \E ok \in BOOLEAN :
        schedule_step("add_permission", ok, "publish_outcome",
                      [bridge EXCEPT !.permission = TRUE])

\* ec2.py 394-404: the outcome is published; a ClientError is logged
publish_outcome ==
    /\ pc = "publish_outcome"
    /\ \E ok \in BOOLEAN :
        /\ calls' = Append(calls,
                           Call("publish",
                                IF scheduled = "False"
                                THEN "Unable to schedule deletion lambda"
                                ELSE "Deletion lambda scheduled at timestamp",
                                0, <<>>, ok))
        /\ pc' = except_ClientError(ok, "done")
    /\ UNCHANGED <<kind, raised, resources, cur, events, email_candidates,
                   info_candidates, at, store, scheduled, bridge, peer>>

Next ==
    \/ ec2_resolve
    \/ ec2_classify
    \/ nat_gw_resolve
    \/ nat_gw_classify
    \/ lb_resolve
    \/ lb_classify
    \/ end_enumeration
    \/ publish_summary
    \/ skip_owner
    \/ store_finding
    \/ notify_owner
    \/ lb_nat_gw_return
    \/ put_rule
    \/ put_targets
    \/ describe_rule
    \/ add_permission
    \/ publish_outcome

Spec == Init /\ [][Next]_vars

(* ---------- the threshold block of ec2.py, lines 285-314, alone --------- *)
\* the state at line 285: the owner is resolved and has its key, the age gate is
\* passed, and a CloudWatch answer is in hand
InitThreshold ==
    /\ kind \in Kinds
    /\ pc = "evaluating"
    /\ raised = "none"
    /\ events = <<>>
    /\ \E owner \in {"alice", PyNone}, response \in Responses(kind) :
        /\ cur = Queried(Input(1, <<>>, TIME_FRAME, kind = "LB"), response)
        /\ resources = <<[id |-> 1, owner |-> owner, resolved |-> TRUE]>>
        /\ email_candidates = setdefault(<<>>, owner)
    /\ info_candidates = <<>>
    /\ at = [owner |-> 1, finding |-> 1]
    /\ calls = <<>>
    /\ store = {}
    /\ scheduled = "pending"
    /\ bridge = [rule |-> FALSE, targets |-> FALSE, permission |-> FALSE]
    /\ peer = NoPeer

ec2_threshold_block ==
    /\ pc = "evaluating"
    /\ kind = "EC2"
    /\ IF Len(cur.response) < 3
       THEN Raise("IndexError", cur)
       ELSE Classified(cur, threshold_ec2(cur.response[1], cur.response[2], cur.response[3]))

\* lb.py lines 203-221 alone
lb_threshold_block ==
    /\ pc = "evaluating"
    /\ kind = "LB"
    /\ IF Len(cur.response) < 2
       THEN Raise("IndexError", cur)
       ELSE Classified(cur, threshold_lb(cur.response[2]))

\* nat_gw.py lines 188-211 alone
nat_gw_threshold_block ==
    /\ pc = "evaluating"
    /\ kind = "NAT"
    /\ IF Len(cur.response) < 1
       THEN Raise("IndexError", cur)
       ELSE Classified(cur, threshold_nat(cur.response[1]))

NextThreshold ==
    \/ ec2_threshold_block
    \/ lb_threshold_block
    \/ nat_gw_threshold_block

SpecThreshold == InitThreshold /\ [][NextThreshold]_vars

(* ------------- the end of the scan, with another scan writing ----------- *)
\* The steps after the enumeration, taken alone on any email_candidates an
\* enumeration of MaxResources resources can leave, while another scan writes its
\* own findings to the same table.

\* what became of resource n: the owner it resolved to and whether it is a finding
Outcomes == [owner : {"alice", PyNone}, finding : BOOLEAN]

\* email_candidates after the resources 1..n, resource i having the outcome f[i]:
\* setdefault for each, a finding appended for the stale ones
RECURSIVE enumerated(_, _, _)
enumerated(k, f, n) ==
    IF n = 0 THEN <<>>
    ELSE LET d == setdefault(enumerated(k, f, n - 1), f[n].owner)
         IN  IF f[n].finding THEN append_finding(d, f[n].owner, Finding(k, n, "idle")) ELSE d

\* the writes the other scan has still to make: its findings, in encounter order
PeerWrites(k) ==
    { [i \in 1..Len(ids) |-> Item("carol", Finding(k, ids[i], "idle"))] :
        ids \in { s \in UNION { [1..n -> 1..MaxResources] : n \in 0..MaxResources } :
                    \A i \in 1..Len(s) - 1 : s[i] < s[i + 1] } }

InitEndOfScan ==
    /\ kind \in Kinds
    /\ pc = "owners"
    /\ raised = "none"
    /\ resources = <<>>
    /\ cur = Input(0, <<>>, 0, FALSE)
    /\ events = <<>>
    /\ \E n \in 0..MaxResources :
        \E f \in [1..n -> Outcomes] : email_candidates = enumerated(kind, f, n)
    /\ info_candidates = <<>>
    /\ at = [owner |-> 1, finding |-> 1]
    /\ calls = <<>>
    /\ store = {}
    /\ scheduled = "pending"
    /\ bridge = [rule |-> FALSE, targets |-> FALSE, permission |-> FALSE]
    /\ \E k \in Kinds : \E todo \in PeerWrites(k) : peer = [kind |-> k, todo |-> todo]

\* the other scan makes its next put_item
peer_put_item ==
    /\ peer.todo # <<>>
    /\ store' = put_item(store, Head(peer.todo))
    /\ peer' = [peer EXCEPT !.todo = Tail(@)]
    /\ UNCHANGED <<kind, pc, raised, resources, cur, events, email_candidates,
                   info_candidates, at, calls, scheduled, bridge>>

NextEndOfScan ==
    \/ skip_owner
    \/ store_finding
    \/ notify_owner
    \/ lb_nat_gw_return
    \/ put_rule
    \/ put_targets
    \/ describe_rule
    \/ add_permission
    \/ publish_outcome
    \/ peer_put_item

SpecEndOfScan == InitEndOfScan /\ [][NextEndOfScan]_vars

(* =========================== the claims ================================ *)
\* the exemption tag: key 'stale', value 'false'
ExemptTagged(tags) ==
    \E i \in 1..Len(tags) : tags[i].Key = "stale" /\ tags[i].Value = "false"

\* the terminal status a summary row stands for
StatusOf(row) ==
    CASE row.status = "stale" -> "Stale"
      [] row.status = "Not stale" -> "Active"
      [] row.status = "misconfigured" -> "Misconfigured"
      [] row.status = "None" /\ row.detail = "Resource tagged as not stale by owner" -> "Exempt"
      [] row.status = "None" /\ row.detail = "Resource Age less than TIME_FRAME days" -> "TooYoung"
      [] OTHER -> "none"

\* the iteration of the current resource is over, normally or by an exception
IterationOver ==
    Len(resources) > 0 /\ pc \in {"enumerating", "enumerated", "aborted", "evaluated"}

\* the owner of the current resource was resolved (the resolver returned)
OwnerResolved == Len(resources) > 0 /\ resources[Len(resources)].resolved

\* the last summary row is the current resource's
RecordedAs(status) ==
    /\ Len(info_candidates) = Len(resources)
    /\ info_candidates[Len(info_candidates)].id = cur.id
    /\ StatusOf(info_candidates[Len(info_candidates)]) = status

HasFinding(id) ==
    \E i \in 1..Len(email_candidates) :
        \E j \in 1..Len(email_candidates[i].idle_resources) :
            email_candidates[i].idle_resources[j].id = id

\* the series the classifier reads by position: ec2.py 285-287, lb.py 203, nat_gw.py 188
NumMetrics == CASE kind = "EC2" -> 3 [] kind = "LB" -> 2 [] kind = "NAT" -> 1

\* C1: a resource that carries the exemption tag (and whose owner was resolved) is
\* recorded Exempt: no metrics query, no Finding in any owner's list, and the scan
\* goes on.
C1_ExemptTagRecordedExempt ==
    (IterationOver /\ OwnerResolved /\ ExemptTagged(cur.tags)) =>
        /\ pc # "aborted"
        /\ ~cur.queried
        /\ RecordedAs("Exempt")
        /\ ~HasFinding(cur.id)

\* C2: a resource younger than TIME_FRAME days (whose owner was resolved) is not
\* evaluated against metrics and is recorded TooYoung, whatever its tags.
C2_YoungRecordedTooYoung ==
    (IterationOver /\ OwnerResolved /\ cur.age < TIME_FRAME) =>
        /\ ~cur.queried
        /\ pc # "aborted"
        /\ RecordedAs("TooYoung")

\* the resource passed the gates and every series of the answer is empty
C3_NoSamples ==
    /\ IterationOver
    /\ cur.queried
    /\ ~ExemptTagged(cur.tags)
    /\ cur.age >= TIME_FRAME
    /\ (kind = "LB" => cur.listeners)
    /\ Len(cur.response) = NumMetrics
    /\ \A i \in 1..Len(cur.response) : cur.response[i] = <<>>

\* C3: a resource that passes the gates and for which every metric comes back with
\* an empty sample list is recorded 'stale' and a Finding is appended to its
\* owner's list; the scan does not fail.
C3_NoSamplesIsStale ==
    C3_NoSamples =>
        /\ pc # "aborted"
        /\ RecordedAs("Stale")
        /\ HasKey(email_candidates, cur_creator)
        /\ Get(email_candidates, cur_creator) # <<>>
        /\ Get(email_candidates, cur_creator)[Len(Get(email_candidates, cur_creator))].id = cur.id

C3_Witness == C3_NoSamples /\ pc = "enumerating" /\ RecordedAs("Stale")

\* the threshold block ran on an answer whose first CPU sample is exactly 10
C4_Cpu10 ==
    /\ kind = "EC2"
    /\ pc = "evaluated"
    /\ Len(cur.response) = 3
    /\ cur.response[3] # <<>>
    /\ cur.response[3][1] = 10

AtLeast5MiB(series) == series # <<>> /\ series[1] >= 5242880

CreatorTagValue(tags) ==
    tags[CHOOSE i \in 1..Len(tags) : tags[i].Key = "creator"].Value

\* C5: a resource with a (non-empty) 'creator' tag resolves to that tag's value and
\* no CloudTrail lookup is issued for it.
C5_TagIsOwnerWithoutLookup ==
    (Len(resources) > 0
        /\ (\E i \in 1..Len(cur.tags) : cur.tags[i].Key = "creator")
        /\ CreatorTagValue(cur.tags) # "") =>
            /\ ~cur.lookup
            /\ OwnerResolved
            /\ cur_creator = CreatorTagValue(cur.tags)

Qualifies(e) == e.EventName = CreationEvent(kind) /\ e.type = "AssumedRole"

\* C6: after a lookup the owner is the username of the first event, in returned
\* order, that has the kind's creation event name and identity type AssumedRole;
\* other events are skipped; with no such event the owner is None.
C6_FirstQualifyingEvent ==
    (pc = "resolved" /\ cur.lookup) =>
        \/ \E i \in 1..Len(events) :
            /\ Qualifies(events[i])
            /\ \A j \in 1..(i - 1) : ~Qualifies(events[j])
            /\ cur_creator = events[i].Username
        \/ /\ \A i \in 1..Len(events) : ~Qualifies(events[i])
           /\ cur_creator = PyNone

C6_Witness ==
    /\ pc = "resolved"
    /\ cur.lookup
    /\ Len(events) = 2
    /\ ~Qualifies(events[1])
    /\ Qualifies(events[2])
    /\ cur_creator = events[2].Username

\* C7: a failed CloudTrail lookup gives the owner None and the scan goes on.
C7_LookupFailureDoesNotAbort ==
    (Len(resources) > 0 /\ cur.lookup_failed) =>
        /\ pc # "aborted"
        /\ OwnerResolved
        /\ cur_creator = PyNone

\* C8: when the enumeration is over, there is exactly one summary row for each
\* resource taken from the lister, in enumeration order, each with a terminal status
\* (stated for the scans in which every owner lookup answered).
C8_OneRecordPerResource ==
    (pc \in {"enumerated", "aborted"} /\ \A i \in 1..Len(resources) : resources[i].resolved) =>
        /\ Len(info_candidates) = Len(resources)
        /\ \A i \in 1..Len(info_candidates) :
            /\ info_candidates[i].id = resources[i].id
            /\ StatusOf(info_candidates[i])
                 \in {"Stale", "Active", "Misconfigured", "Exempt", "TooYoung"}

\* the owners the resources taken so far resolved to
ResolvedOwners == { resources[i].owner : i \in { j \in 1..Len(resources) : resources[j].resolved } }

\* C9: at every point email_candidates has a key for an owner, None included,
\* exactly if a resource taken so far resolved to that owner, whether or not the
\* owner's list is empty; and a key is never removed.
C9_KeysAreResolvedOwners ==
    /\ [](Keys(email_candidates) = ResolvedOwners)
    /\ [][Keys(email_candidates) \subseteq Keys(email_candidates')]_vars

C9_Witness ==
    /\ pc = "enumerating"
    /\ Len(info_candidates) = 2
    /\ \E i \in 1..Len(email_candidates) :
        /\ email_candidates[i].creator = PyNone
        /\ email_candidates[i].idle_resources = <<>>
    /\ \E i \in 1..Len(email_candidates) :
        /\ email_candidates[i].creator # PyNone
        /\ email_candidates[i].idle_resources # <<>>

Ids(seq) == [i \in 1..Len(seq) |-> seq[i].id]

\* the summary rows of an owner that are findings, in encounter order
FindingRows(o) ==
    SelectSeq(info_candidates,
              LAMBDA row : row.creator = o /\ row.status \in {"stale", "misconfigured"})

\* C10: each summary row carries the owner resolved for its resource, and each
\* owner's list holds exactly the Findings of that owner's Stale and Misconfigured
\* resources, in encounter order.
C10_FindingsPerOwnerInOrder ==
    /\ \A i \in 1..Len(info_candidates) :
        /\ info_candidates[i].id = resources[i].id
        /\ info_candidates[i].creator = resources[i].owner
        /\ HasKey(email_candidates, info_candidates[i].creator)
    /\ \A i \in 1..Len(email_candidates) :
        Ids(email_candidates[i].idle_resources) = Ids(FindingRows(email_candidates[i].creator))

C10_Witness ==
    /\ Len(info_candidates) = 2
    /\ info_candidates[1].status = "stale"
    /\ info_candidates[2].status = "stale"
    /\ Len(email_candidates) = 1
    /\ email_candidates[1].creator = "alice"
    /\ Ids(email_candidates[1].idle_resources) = <<1, 2>>

(* --------------------------- the end of the scan ------------------------ *)
\* the positions in calls of the calls of one operation
CallsOf(op) == {i \in 1..Len(calls) : calls[i].op = op}

UnownedFindings == IF HasKey(email_candidates, PyNone) THEN Get(email_candidates, PyNone) ELSE <<>>

\* C12: a Stale or Misconfigured resource whose owner is None is held in the list
\* of None and is in the published summary with its status; no e-mail and no
\* store write is made for the owner None, and no record of such a resource is
\* ever in the store.
C12_UnownedOnlyInSummary ==
    /\ \A i \in CallsOf("put_item") \cup CallsOf("send_email") : calls[i].arg # PyNone
    /\ \A x \in store : x.Creator # PyNone
    /\ \A j \in 1..Len(UnownedFindings) :
        /\ \A i \in CallsOf("put_item") : calls[i].id # UnownedFindings[j].id
        /\ \A x \in store : x.ResourceID # UnownedFindings[j].id
    /\ pc \in {"owners", "done"} =>
        /\ calls[1].op = "publish" /\ calls[1].arg = "summary"
        /\ \A r \in 1..Len(info_candidates) :
            /\ calls[1].body[r] = info_candidates[r]
            /\ info_candidates[r].creator = PyNone
                  /\ StatusOf(info_candidates[r]) \in {"Stale", "Misconfigured"}
               => \E j \in 1..Len(UnownedFindings) :
                     UnownedFindings[j].id = info_candidates[r].id

C12_Witness ==
    /\ pc = "done"
    /\ UnownedFindings # <<>>
    /\ store # {}
    /\ CallsOf("send_email") # {}

\* the attempts to write the finding of one resource for one owner
WritesOf(owner, id) ==
    {i \in CallsOf("put_item") : calls[i].arg = owner /\ calls[i].id = id}

\* C13: a store write, an e-mail or a summary that fails with a ClientError never
\* ends the scan; when the owners are done, whichever calls failed, the write of
\* every finding of every owner other than None was attempted exactly once and
\* every owner with findings was sent an e-mail.
C13_FailuresAreCaught ==
    /\ calls # <<>> => pc # "aborted" /\ raised = "none"
    /\ (pc = "done" \/ (pc = "owners" /\ at.owner > Len(email_candidates))) =>
        \A e \in 1..Len(email_candidates) :
            LET owner == email_candidates[e].creator
                idle_resources == email_candidates[e].idle_resources
            IN  owner # PyNone =>
                  /\ \A j \in 1..Len(idle_resources) :
                        Cardinality(WritesOf(owner, idle_resources[j].id)) = 1
                  /\ idle_resources # <<>> =>
                        \E i \in CallsOf("send_email") : calls[i].arg = owner

\* the first of an owner's two writes failed, and so did the summary and an
\* e-mail; all the same the second write was made and the scan returned
C13_Witness ==
    /\ pc = "done"
    /\ ~calls[1].ok
    /\ \E i, j \in CallsOf("put_item") :
        i < j /\ calls[i].arg = calls[j].arg /\ ~calls[i].ok /\ calls[j].ok
    /\ \E i \in CallsOf("send_email") : ~calls[i].ok

\* C14: the scheduler is invoked at most once and after every store write and
\* e-mail; a scan that has returned published the summary first, then invoked the
\* scheduler exactly once, and published the scheduling outcome last.
C14_SchedulerInvokedLast ==
    /\ Cardinality(CallsOf("put_rule")) <= 1
    /\ \A i \in CallsOf("put_rule") :
        \A j \in CallsOf("put_item") \cup CallsOf("send_email") : j < i
    /\ pc = "done" =>
        /\ calls[1].op = "publish" /\ calls[1].arg = "summary"
        /\ Cardinality(CallsOf("put_rule")) = 1
        /\ Cardinality(CallsOf("publish")) = 2
        /\ calls[Len(calls)].op = "publish" /\ calls[Len(calls)].arg # "summary"

\* the step just taken was a call of the scheduler or the broadcast of its outcome
SchedulingStep ==
    /\ Len(calls') = Len(calls) + 1
    /\ calls'[Len(calls')].op \in {"put_rule", "put_targets", "describe_rule",
                                   "add_permission", "publish"}

\* C15: when a step of the scheduling fails the handler does not abort: it goes on
\* to the final broadcast, whose message is then 'Unable to schedule deletion
\* lambda' (and only then), and no step of the scheduling or of that broadcast
\* changes the table.
C15_SchedulingFailureIsNotFatal ==
    /\ [](scheduled = "False" => pc \in {"publish_outcome", "done"} /\ raised = "none")
    /\ [](pc = "done" /\ kind = "EC2" =>
            /\ calls[Len(calls)].op = "publish"
            /\ scheduled \in {"False", "timestamp"}
            /\ (calls[Len(calls)].arg = "Unable to schedule deletion lambda")
                  <=> (scheduled = "False"))
    /\ [][SchedulingStep => store' = store]_vars

\* the rule was put, a later step failed, and the scan returned with the owner's
\* record still in the table
C15_Witness ==
    /\ pc = "done"
    /\ scheduled = "False"
    /\ bridge.rule
    /\ \E x \in store : x.Creator = "alice" /\ x.Type = "EC2"

\* C16: a resource whose metrics answer has fewer series than the classifier reads
\* is recorded Stale, with a Finding, and the scan is not aborted.
C16_MalformedIsNoData ==
    (IterationOver /\ OwnerResolved /\ cur.queried /\ Len(cur.response) < NumMetrics) =>
        /\ pc # "aborted"
        /\ raised = "none"
        /\ RecordedAs("Stale")
        /\ HasFinding(cur.id)

\* the item a step has just written to the table, as a set: empty when the step
\* was not a successful write of this scan or of the other one
Written ==
    IF peer'.todo # peer.todo THEN {Head(peer.todo)}
    ELSE IF /\ Len(calls') = Len(calls) + 1
            /\ calls'[Len(calls')].op = "put_item"
            /\ calls'[Len(calls')].ok
         THEN {[Creator |-> calls'[Len(calls')].arg, ResourceID |-> calls'[Len(calls')].id,
                Type |-> kind, Deletion_Status |-> "Marked"]}
         ELSE {}

\* C17: with another scan writing to the same table, under every interleaving:
\* the table never holds two records under one key (ResourceID, Type); when the
\* two scans are of different kinds no record is ever removed or replaced; and
\* after each write the record under the written key is the one just written.
C17_LastWriteWinsPerKey ==
    /\ [](\A x, y \in store : SameKey(x, y) => x = y)
    /\ [][kind # peer.kind => store \subseteq store']_vars
    /\ [][\A w \in Written : {x \in store' : SameKey(x, w)} = {w}]_vars
    /\ [][\A x \in store : (\A w \in Written : ~SameKey(x, w)) => x \in store']_vars

\* two scans of one kind both wrote resource 1, the other scan last
C17_Witness ==
    /\ kind = peer.kind
    /\ \E i \in CallsOf("put_item") : calls[i].ok /\ calls[i].id = 1
    /\ \E x \in store : x.ResourceID = 1 /\ x.Creator = "carol"
    /\ Cardinality(store) = 1

\* C18: the metrics of a resource are queried only when the resource does not
\* carry the exemption tag, is at least TIME_FRAME days old and, for a load
\* balancer, has a listener; a resource recorded Exempt, TooYoung or
\* Misconfigured was not queried.
C18_QueryOnlyAfterGates ==
    /\ cur.queried =>
        /\ ~ExemptTagged(cur.tags)
        /\ cur.age >= TIME_FRAME
        /\ kind = "LB" => cur.listeners
    /\ (IterationOver /\ (RecordedAs("Exempt") \/ RecordedAs("TooYoung")
                            \/ RecordedAs("Misconfigured"))) => ~cur.queried

\* the last finding in the list of the current resource's owner
LastFinding ==
    LET idle_resources == Get(email_candidates, cur_creator)
    IN  idle_resources[Len(idle_resources)]

\* C19: a load balancer at least TIME_FRAME days old with no listener is recorded
\* 'misconfigured', a Finding marked 'misconfigured' is appended to its owner's
\* list and its metrics are not queried; a younger load balancer is TooYoung, with
\* no Finding, whether or not it has listeners.
C19_NoListenerIsMisconfigured ==
    (IterationOver /\ OwnerResolved /\ kind = "LB") =>
        /\ (cur.age >= TIME_FRAME /\ ~cur.listeners) =>
            /\ RecordedAs("Misconfigured")
            /\ Get(email_candidates, cur_creator) # <<>>
            /\ LastFinding.id = cur.id
            /\ LastFinding.reason = "misconfigured"
            /\ ~cur.queried
        /\ cur.age < TIME_FRAME =>
            /\ RecordedAs("TooYoung")
            /\ ~HasFinding(cur.id)
            /\ ~cur.queried

\* the second load balancer of an owner has no listener; the first one was idle
C19_Witness ==
    /\ kind = "LB"
    /\ pc = "enumerating"
    /\ Len(resources) = 2
    /\ cur.age >= TIME_FRAME /\ ~cur.listeners
    /\ RecordedAs("Misconfigured")
    /\ Len(Get(email_candidates, cur_creator)) = 2
    /\ Get(email_candidates, cur_creator)[1].reason = "idle"

\* the first sample of the i-th series of the answer, 0 for a series without samples
FirstSample(i) == IF cur.response[i] # <<>> THEN cur.response[i][1] ELSE 0

\* the activity predicate of each kind on the first samples
ActivityPredicate ==
    CASE kind = "EC2" -> ~((FirstSample(1) < 5 * 1024 * 1024 /\ FirstSample(2) < 5 * 1024 * 1024)
                            \/ FirstSample(3) < 10)
      [] kind = "LB" -> FirstSample(2) > 1000
      [] kind = "NAT" -> FirstSample(1) > 7

\* C20: when at least one of the series read has samples, the resource is Active
\* if the kind's predicate holds on the first sample of each series (0 for a
\* series without samples) and Stale, with a Finding, if not; later samples play
\* no part.
C20_StatusFromFirstSamples ==
    (/\ pc = "evaluated"
     /\ Len(cur.response) >= NumMetrics
     /\ \E i \in 1..NumMetrics : cur.response[i] # <<>>) =>
        IF ActivityPredicate
        THEN RecordedAs("Active") /\ ~HasFinding(cur.id)
        ELSE RecordedAs("Stale") /\ HasFinding(cur.id)

\* a load balancer whose first metric has no samples and whose request count is
\* 1001 then 1000 is Active
C20_Witness ==
    /\ kind = "LB"
    /\ pc = "evaluated"
    /\ cur.response = << <<>>, <<1001, 1000>> >>
    /\ RecordedAs("Active")

\* the items the owner loop of this scan can write: one for each finding of each
\* owner other than None
OwnFindingItems ==
    UNION { { Item(email_candidates[e].creator, email_candidates[e].idle_resources[j]) :
                j \in 1..Len(email_candidates[e].idle_resources) } :
            e \in { i \in 1..Len(email_candidates) : email_candidates[i].creator # PyNone } }

\* C21: every record of the table is 'Marked'; a step of the scan adds to the table
\* at most the item of one of its own findings held under an owner other than
\* None, and removes or changes no record under another key, so a record an
\* earlier or concurrent scan wrote for a resource that is no finding of this
\* scan stays as it was.
C21_ScanOnlyMarksItsFindings ==
    /\ [](\A x \in store : x.Deletion_Status = "Marked")
    /\ [][peer' = peer =>
            /\ store' \ store \subseteq OwnFindingItems
            /\ \A x \in store \ store' : \E w \in store' \ store : SameKey(x, w)]_vars

\* the scan has returned; the record another scan of the same kind wrote for
\* resource 1, which is no finding of this scan, is still there, next to the
\* record this scan wrote
C21_Witness ==
    /\ pc = "done"
    /\ kind = peer.kind
    /\ peer.todo = <<>>
    /\ ~HasFinding(1)
    /\ \E x \in store : x.ResourceID = 1 /\ x.Creator = "carol" /\ x.Type = kind
    /\ \E x \in store : x.Creator = "alice" /\ x.Type = kind

\* the calls schedule_deletion_lambda has made, in order
SchedulerCalls ==
    SelectSeq(calls, LAMBDA c : c.op \in {"put_rule", "put_targets", "describe_rule",
                                          "add_permission"})

SchedulerOrder == <<"put_rule", "put_targets", "describe_rule", "add_permission">>

\* a step of the scheduler was called and succeeded
Succeeded(op) == \E i \in 1..Len(SchedulerCalls) : SchedulerCalls[i].op = op /\ SchedulerCalls[i].ok

\* C22: the calls of schedule_deletion_lambda are a prefix of put_rule,
\* put_targets, describe_rule, add_permission, and no call follows a failed one;
\* it returns a timestamp exactly when all four were made and succeeded and False,
\* with no exception raised, exactly when one failed; the rule, the target and
\* the permission are in place exactly if their step succeeded, whatever failed
\* later.
C22_SchedulerStepsInOrder ==
    /\ Len(SchedulerCalls) <= 4
    /\ \A i \in 1..Len(SchedulerCalls) :
        /\ SchedulerCalls[i].op = SchedulerOrder[i]
        /\ i < Len(SchedulerCalls) => SchedulerCalls[i].ok
    /\ scheduled = "timestamp" <=>
        (Len(SchedulerCalls) = 4 /\ \A i \in 1..4 : SchedulerCalls[i].ok)
    /\ scheduled = "False" <=>
        (SchedulerCalls # <<>> /\ ~SchedulerCalls[Len(SchedulerCalls)].ok)
    /\ scheduled = "False" => raised = "none" /\ pc \in {"publish_outcome", "done"}
    /\ bridge.rule <=> Succeeded("put_rule")
    /\ bridge.targets <=> Succeeded("put_targets")
    /\ bridge.permission <=> Succeeded("add_permission")
    /\ (pc = "done" /\ kind = "EC2") => scheduled \in {"False", "timestamp"}

\* add_permission failed after the three steps before it succeeded: False is
\* returned, the rule and its target stay
C22_Witness ==
    /\ pc = "done"
    /\ scheduled = "False"
    /\ Len(SchedulerCalls) = 4
    /\ bridge = [rule |-> TRUE, targets |-> TRUE, permission |-> FALSE]

====
